---- MODULE Spec2Model ----
(***************************************************************************)
(* Generation-Validation-Render pipeline of GenAI_MANIM.                   *)
(*                                                                         *)
(* Two entry points are modelled:                                          *)
(*   - the POST /generate handler generate_visualization (app/main.py),    *)
(*   - the retry loop generate_ir_with_validation (app/llm.py).            *)
(* The generative text service and the render engine are external: every  *)
(* outcome they can produce is drawn with \E.                              *)
(*                                                                         *)
(* The pure functions are also called directly, each on every argument of *)
(* a bounded set:                                                          *)
(*   - SpecResolve: resolve_pattern (app/patterns.py),                     *)
(*   - SpecValidate: the IR validators (app/schema.py, app/llm.py),        *)
(*   - SpecSanitize: the post-processing of call_llm_codegen_with_usage    *)
(*     (app/llm_codegen.py) and validate_manim_code_basic (app/main.py).   *)
(*                                                                         *)
(* SpecRequests runs several /generate requests side by side and records  *)
(* every file each of them writes or returns.                              *)
(***************************************************************************)
EXTENDS Integers, Sequences, FiniteSets, TLC

(* ------------------------------ bounds -------------------------------- *)

\* largest max_retries_zero_temp an invocation of the retry loop is given
MaxRetries == 2

\* longest component / event list of a generated JSON IR document
MaxIrLen == 2

\* longest token / weight list of a generated attention IR document
MaxTokens == 2

(* -------------------------- program constants ------------------------- *)

max_codegen_attempts == 3

max_render_attempts == 3

\* video_path = None
NoPath == [stem |-> 0, name |-> "None"]

\* a source text, by what the post-check searches for in it
Text(imp, cls, con, hex, helper, bracket) ==
    [import_manim |-> imp, algorithm_scene |-> cls, construct |-> con,
     hex_color |-> hex, unknown_helper |-> helper, unmatched_bracket |-> bracket]

CleanText == Text(TRUE, TRUE, TRUE, FALSE, FALSE, FALSE)

\* manim_code = None (generation 0: nothing generated yet)
NoCode == [gen |-> 0, text |-> Text(FALSE, FALSE, FALSE, FALSE, FALSE, FALSE)]


(* ------------------------- pattern resolution ------------------------- *)

PatternType == {"grid", "sequence", "flow", "graph", "seq_attention"}

DomainKeys ==
    {"cnn_param", "sorting", "bubble_sort", "selection_sort", "transformer",
     "transformer_attn", "attention", "cache", "math", "pipeline",
     "hash_table", "graph_traversal", "shortest_path", "graph",
     "binary_tree", "tree", "dynamic_programming"}

DOMAIN_TO_PATTERN ==
    [d \in DomainKeys |->
        CASE d \in {"cnn_param", "hash_table", "dynamic_programming"} -> "grid"
          [] d \in {"sorting", "bubble_sort", "selection_sort"} -> "sequence"
          [] d \in {"transformer", "transformer_attn", "attention"} -> "seq_attention"
          [] d \in {"cache", "math", "pipeline"} -> "flow"
          [] OTHER -> "graph"]

VALID_PATTERNS == {"grid", "sequence", "seq_attention", "flow", "graph"}

\* a value that is no string: Python's None
None == "<None>"

\* str.lower() on the strings the model draws
Lower(s) ==
    CASE s = "GRID" -> "grid"
      [] s = "Sequence" -> "sequence"
      [] s = "Flow" -> "flow"
      [] s = "Graph" -> "graph"
      [] s = "SEQ_ATTENTION" -> "seq_attention"
      [] s = "Heatmap" -> "heatmap"
      [] OTHER -> s

\* the recommended pattern is consulted before the override table
resolve_pattern_llm_first(domain_, llm_pattern_) ==
    IF Lower(llm_pattern_) \in VALID_PATTERNS
    THEN Lower(llm_pattern_)
    ELSE IF domain_ \in DOMAIN DOMAIN_TO_PATTERN
         THEN DOMAIN_TO_PATTERN[domain_]
         ELSE "flow"

\* step 3 is missing: an unknown recommendation is handed back lowercased
resolve_pattern_no_fallback(domain_, llm_pattern_) ==
    IF domain_ \in DOMAIN DOMAIN_TO_PATTERN
    THEN DOMAIN_TO_PATTERN[domain_]
    ELSE Lower(llm_pattern_)

resolve_pattern(domain_, llm_pattern_) ==
    IF domain_ \in DOMAIN DOMAIN_TO_PATTERN
    THEN DOMAIN_TO_PATTERN[domain_]
    ELSE IF Lower(llm_pattern_) \in VALID_PATTERNS
         THEN Lower(llm_pattern_)
         ELSE "flow"

(* --------------------- classifier adapter (LLM) ----------------------- *)

\* Allowed domains listed in DOMAIN_SYSTEM_PROMPT
AllowedDomains ==
    {"cnn_param", "sorting", "transformer", "cache", "hash_table",
     "graph_traversal", "dynamic_programming", "math", "generic"}

\* Allowed patterns listed in PATTERN_SYSTEM_PROMPT
AllowedPatterns == {"grid", "sequence", "seq_attention", "flow"}

\* what one chat.completions.create + json.loads can produce for a classifier:
\* a transport error, text that does not parse, an object without the field,
\* or an object whose field holds some string
DomainReplies ==
    {[kind |-> "transport_error", value |-> ""],
     [kind |-> "malformed", value |-> ""],
     [kind |-> "absent", value |-> ""]}
    \cup {[kind |-> "field", value |-> v] : v \in AllowedDomains \cup {"quantum"}}

PatternReplies ==
    {[kind |-> "transport_error", value |-> ""],
     [kind |-> "malformed", value |-> ""],
     [kind |-> "absent", value |-> ""]}
    \cup {[kind |-> "field", value |-> v] :
            v \in AllowedPatterns \cup {"graph", "GRID", "heatmap"}}

\* result of a call: exc = "none" and a value, or the exception that propagates
Ok(v) == [exc |-> "none", value |-> v]

Raise(e) == [exc |-> e, value |-> ""]

call_llm_detect_domain(reply) ==
    CASE reply.kind = "transport_error" -> Raise("APIConnectionError")
      [] reply.kind = "malformed" -> Raise("JSONDecodeError")
      [] reply.kind = "absent" -> Ok("generic")
      [] OTHER -> Ok(reply.value)

call_llm_pattern(reply) ==
    CASE reply.kind = "transport_error" -> Raise("APIConnectionError")
      [] reply.kind = "malformed" -> Raise("JSONDecodeError")
      [] reply.kind = "absent" -> Ok("flow")
      [] OTHER -> Ok(reply.value)

(* ------------------------- IR documents (JSON) ------------------------ *)

SeqsUpTo(S, n) == UNION {[1..k -> S] : k \in 0..n}

\* an event whose "t" key is absent carries NoT; an absent "from" key is NoRef
NoT == -1

NoRef == "<absent>"

IrEvents == [t : {NoT, 0, 1}, from : {NoRef, "a", "z"}]

\* lengths of the coordinate lists the model draws
PositionLengths == {0, 2, 3, 4}

\* a spatial position: the key is absent, or it holds a list of numbers
Positions ==
    {[present |-> FALSE, coords |-> <<>>]}
    \cup {[present |-> TRUE, coords |-> [i \in 1..n |-> 0]] : n \in PositionLengths}

IrComponents == [id : {"a", "b"}, pos : Positions]

\* parsed output of stage 2: components and events; "op" is present
IrDocs ==
    [components : SeqsUpTo(IrComponents, MaxIrLen),
     events : SeqsUpTo(IrEvents, MaxIrLen)]

\* Draft7Validator(JSON_IR_SCHEMA).iter_errors over the modelled fields
schema_errors(doc) ==
    {"'t' is a required property" :
        i \in {j \in 1..Len(doc.events) : doc.events[j].t = NoT}}
    \cup {"pos is too short" :
            i \in {j \in 1..Len(doc.components) :
                     /\ doc.components[j].pos.present
                     /\ Len(doc.components[j].pos.coords) < 3}}
    \cup {"pos is too long" :
            i \in {j \in 1..Len(doc.components) :
                     /\ doc.components[j].pos.present
                     /\ Len(doc.components[j].pos.coords) > 3}}

\* any(evts[i]["t"] > evts[i+1]["t"] ...) stops at the first true pair; a pair
\* evaluated before that with a missing "t" raises KeyError
FirstDecreasing(evts) ==
    {i \in 1..(Len(evts) - 1) :
        /\ evts[i].t # NoT /\ evts[i + 1].t # NoT
        /\ evts[i].t > evts[i + 1].t}

FirstMissing(evts) ==
    {i \in 1..(Len(evts) - 1) : evts[i].t = NoT \/ evts[i + 1].t = NoT}

Min(S) == CHOOSE x \in S : \A y \in S : x <= y

invariants_raises(doc) ==
    /\ FirstMissing(doc.events) # {}
    /\ \/ FirstDecreasing(doc.events) = {}
       \/ Min(FirstMissing(doc.events)) < Min(FirstDecreasing(doc.events))

invariants_errors(doc) ==
    LET comp_ids == {doc.components[i].id : i \in 1..Len(doc.components)}
        evts == doc.events
    IN  (IF FirstDecreasing(evts) # {}
         THEN {"events.t must be non-decreasing order"} ELSE {})
        \cup {"event references undefined 'from'" :
                i \in {j \in 1..Len(evts) :
                         evts[j].from # NoRef /\ evts[j].from \notin comp_ids}}

\* errs = schema_errors(doc) + invariants_errors(doc), llm.py lines 102 and 111
ir_validation(doc) ==
    IF invariants_raises(doc)
    THEN [exc |-> "KeyError", errs |-> {}]
    ELSE [exc |-> "none", errs |-> schema_errors(doc) \cup invariants_errors(doc)]

(* ----------------------- attention IR documents ----------------------- *)

\* weights: dim 1 is a list of numbers, dim 2 a list of rows; rows holds the
\* length of each row (1 for a number)
AttnWeights ==
    {[dim |-> 1, rows |-> [i \in 1..n |-> 1]] : n \in 0..MaxTokens}
    \cup {[dim |-> 2, rows |-> r] : r \in SeqsUpTo(0..MaxTokens, MaxTokens) \ {<<>>}}

\* next_token: absent, or an object with candidates and probs of these lengths
AttnNextToken ==
    {[present |-> FALSE, candidates |-> 0, probs |-> 0]}
    \cup [present : {TRUE}, candidates : 0..MaxTokens, probs : 0..MaxTokens]

\* query_index: a whole number, held as an int (3) or as a float (3.0); the
\* Draft 7 type "integer" takes both
QueryIndexes == [value : -1..(MaxTokens + 1), is_int : BOOLEAN]

AttnDocs ==
    [pattern_type : {"seq_attention", "grid"},
     tokens : 0..MaxTokens,
     weights : AttnWeights,
     query_index : QueryIndexes,
     next_token : AttnNextToken]

\* ATTENTION_IR_VALIDATOR.iter_errors over the modelled fields
attention_schema_errors(doc) ==
    (IF doc.pattern_type # "seq_attention"
     THEN {"'seq_attention' was expected"} ELSE {})
    \cup (IF doc.tokens < 1 THEN {"tokens is too short"} ELSE {})
    \cup (IF Len(doc.weights.rows) < 1 THEN {"weights is too short"} ELSE {})
    \cup (IF \E i \in 1..Len(doc.weights.rows) : doc.weights.rows[i] < 1
          THEN {"weights item is not valid under any of the given schemas"} ELSE {})
    \cup (IF doc.query_index.value < 0
          THEN {"query_index is less than the minimum of 0"} ELSE {})
    \cup (IF doc.next_token.present /\ doc.next_token.candidates < 1
          THEN {"candidates is too short"} ELSE {})
    \cup (IF doc.next_token.present /\ doc.next_token.probs < 1
          THEN {"probs is too short"} ELSE {})

validate_attention_ir(doc) ==
    LET tokens == doc.tokens
        rows == doc.weights.rows
        nt == doc.next_token
    IN  attention_schema_errors(doc)
        \cup (IF Len(rows) > 0 /\ doc.weights.dim = 2 /\ Len(rows) # tokens
              THEN {"len(weights) must equal len(tokens) for 2D weights"} ELSE {})
        \cup (IF Len(rows) > 0 /\ doc.weights.dim = 2
                 /\ \E i \in 1..Len(rows) : rows[i] # rows[1]
              THEN {"all rows in weights must have the same length"} ELSE {})
        \cup (IF Len(rows) > 0 /\ doc.weights.dim = 1 /\ Len(rows) # tokens
              THEN {"len(weights) must equal len(tokens) for 1D weights"} ELSE {})
        \cup (IF /\ doc.query_index.is_int
                 /\ ~(0 <= doc.query_index.value /\ doc.query_index.value < tokens)
              THEN {"query_index out of range"} ELSE {})
        \cup (IF nt.present /\ nt.candidates # nt.probs
              THEN {"next_token.candidates and probs must have the same length"}
              ELSE {})

(* ----------------------- pattern IR documents ------------------------- *)

\* a component of a grid, sequence, flow or hash-table document, or a node of a
\* graph document
VariantComponents == [id : {"a", "b"}, position : Positions]

\* an action: "type" is present; an absent "t" is NoT, an absent "target" NoRef
VariantActions == [t : {NoT, 0, 1}, target : {NoRef, "a", "z"}]

\* values of the "pattern" discriminator
VariantPatterns == {"grid", "sequence", "flow", "graph"}

\* components holds the "nodes" of a graph document
VariantDocs ==
    [pattern : VariantPatterns,
     components : SeqsUpTo(VariantComponents, MaxIrLen),
     actions : SeqsUpTo(VariantActions, MaxIrLen)]

\* err.message of a jsonschema error, word by word
RequiredProperty(key) == <<key, "is", "a", "required", "property">>

TooShort(what) == <<what, "is", "too", "short">>

TooLong(what) == <<what, "is", "too", "long">>

\* "pattern": {"type": "string", "const": tag}
ConstErrors(ir, tag) ==
    IF ir.pattern # tag THEN {<<"'" \o tag \o "'", "was", "expected">>} ELSE {}

\* "pattern": {"type": "string", "enum": [tag]}
EnumErrors(ir, tag) ==
    IF ir.pattern # tag
    THEN {<<"'" \o ir.pattern \o "'", "is", "not", "one", "of", "['" \o tag \o "']">>}
    ELSE {}

\* "required" in err.message.lower() or "type" in err.message.lower()
MentionsRequiredOrType(message) ==
    \E i \in 1..Len(message) : message[i] \in {"required", "type"}

\* "required": ["t", "type"] of the items of "actions"
ActionSchemaErrors(ir) ==
    {RequiredProperty("'t'") :
        i \in {j \in 1..Len(ir.actions) : ir.actions[j].t = NoT}}

\* "position": minItems 3, maxItems 3
PositionSchemaErrors(ir) ==
    {TooShort("position") :
        i \in {j \in 1..Len(ir.components) :
                 /\ ir.components[j].position.present
                 /\ Len(ir.components[j].position.coords) < 3}}
    \cup {TooLong("position") :
            i \in {j \in 1..Len(ir.components) :
                     /\ ir.components[j].position.present
                     /\ Len(ir.components[j].position.coords) > 3}}

\* the VALIDATOR.iter_errors(ir) of each pattern, over the modelled fields
GRID_IR_SCHEMA(ir) == ConstErrors(ir, "grid") \cup ActionSchemaErrors(ir)

SEQUENCE_IR_SCHEMA(ir) == ConstErrors(ir, "sequence") \cup ActionSchemaErrors(ir)

FLOW_IR_SCHEMA(ir) ==
    EnumErrors(ir, "flow") \cup ActionSchemaErrors(ir) \cup PositionSchemaErrors(ir)

\* "pattern": {"type": "string"}, "components": {"type": "array"},
\* "actions": {"type": "array"}
HASH_TABLE_IR_SCHEMA(ir) == {}

\* "nodes": minItems 1
GRAPH_IR_SCHEMA(ir) ==
    ConstErrors(ir, "graph") \cup ActionSchemaErrors(ir) \cup PositionSchemaErrors(ir)
    \cup (IF Len(ir.components) < 1 THEN {TooShort("nodes")} ELSE {})

\* errors.append(f"Schema: {err.message}") for the errors that pass the filter
FilteredSchemaErrors(schema_errs) ==
    {<<"Schema:">> \o m : m \in {e \in schema_errs : MentionsRequiredOrType(e)}}

\* times = [a.get("t", 0) for a in actions]
ActionTimes(ir) ==
    [i \in 1..Len(ir.actions) |->
        IF ir.actions[i].t = NoT THEN 0 ELSE ir.actions[i].t]

\* times == sorted(times)
IsSorted(times) == \A i \in 1..(Len(times) - 1) : times[i] <= times[i + 1]

\* if times and times != sorted(times)
TimeOrderErrors(ir) ==
    IF Len(ActionTimes(ir)) > 0 /\ ~IsSorted(ActionTimes(ir))
    THEN {<<"Actions must be in non-decreasing order of time (t)">>}
    ELSE {}

\* grid_pos is present and holds two integers in every component drawn
validate_grid_ir(ir) ==
    LET errors == FilteredSchemaErrors(GRID_IR_SCHEMA(ir))
    IN  IF errors # {} THEN errors ELSE TimeOrderErrors(ir)

validate_sequence_ir(ir) ==
    LET errors == FilteredSchemaErrors(SEQUENCE_IR_SCHEMA(ir))
    IN  IF errors # {} THEN errors ELSE TimeOrderErrors(ir)

validate_flow_ir(ir) ==
    LET errors == FilteredSchemaErrors(FLOW_IR_SCHEMA(ir))
    IN  IF errors # {} THEN errors ELSE TimeOrderErrors(ir)

validate_hash_table_ir(ir) ==
    {<<"Schema:">> \o m : m \in HASH_TABLE_IR_SCHEMA(ir)}

\* if pos and len(pos) != 3: an empty list is falsy
validate_graph_ir(ir) ==
    LET errors == FilteredSchemaErrors(GRAPH_IR_SCHEMA(ir))
        nodes == ir.components
    IN  IF errors # {}
        THEN errors
        ELSE {<<"Node", nodes[i].id, "position must be [x, y, z]">> :
                i \in {j \in 1..Len(nodes) :
                         /\ nodes[j].position.present
                         /\ Len(nodes[j].position.coords) > 0
                         /\ Len(nodes[j].position.coords) # 3}}
             \cup TimeOrderErrors(ir)

(* -------------------------- generated source -------------------------- *)

\* texts call_llm_codegen_with_usage can hand back, by what the post-check
\* finds in them
CodeTexts ==
    {CleanText,
     Text(TRUE, TRUE, TRUE, TRUE, FALSE, FALSE),
     Text(TRUE, FALSE, TRUE, FALSE, TRUE, FALSE)}

\* the issues found, as (error_type, message) pairs
validate_manim_code_basic(text) ==
    (IF ~text.import_manim
     THEN {<<"syntax", "missing 'from manim import *'">>} ELSE {})
    \cup (IF ~text.algorithm_scene
          THEN {<<"class_name", "AlgorithmScene(Scene) not defined">>} ELSE {})
    \cup (IF ~text.construct
          THEN {<<"syntax", "construct(self) not found">>} ELSE {})
    \cup (IF text.hex_color
          THEN {<<"color", "hex color literal detected">>} ELSE {})
    \cup (IF text.unknown_helper
          THEN {<<"unknown_helper", "uses undefined helper">>} ELSE {})
    \cup (IF text.unmatched_bracket
          THEN {<<"syntax", "possible unmatched bracket">>} ELSE {})

(* the text model: a text is its lines, a line its indentation and what
   follows it; a blank line has the body "" *)

\* longest reply, in lines
MaxLines == 3

\* <fence> stands for the three backquotes that open or close a code block
FenceBodies == {"<fence>python", "<fence>"}

ClassBodies ==
    {"class AlgorithmScene(Scene):", "class SortScene(Scene):",
     "class MyAnimation(Scene):"}

\* lines that call the helper PlotPoint of UNKNOWN_HELPERS
HelperBodies == {"self.play(PlotPoint(1))", "PlotPoint(1)", "x = PlotPoint(1)"}

\* the lines re.search(r'#[0-9A-Fa-f]{6}', code) finds a hex colour in
HexBodies == {"c = Circle(color='#FF0000')", "c.set_fill('#FF0000')"}

\* what the chat completion can put on a line
ReplyBodies ==
    FenceBodies \cup ClassBodies \cup HelperBodies
    \cup {"from manim import *", "def construct(self):",
          "c = Circle(color=CYAN)", "c = Circle(color='#FF0000')",
          "c.set_fill('#FF0000')"}

ReplyLines ==
    {[indent |-> 0, body |-> ""]} \cup [indent : {0, 8}, body : ReplyBodies]

ReplyTexts == SeqsUpTo(ReplyLines, MaxLines)

IsBlank(line) == line.body = ""

\* code.replace(<fence>python, ""): the opening fence of a code block
RemoveFencePython(body) == IF body = "<fence>python" THEN "" ELSE body

\* .replace(<fence>, ""): the closing fence
RemoveFence(body) == IF body = "<fence>" THEN "" ELSE body

Max(S) == CHOOSE x \in S : \A y \in S : x >= y

\* .strip(): the whitespace before the first and after the last character that
\* is none goes, blank lines and the first line's indentation included
Strip(text) ==
    LET inked == {i \in 1..Len(text) : ~IsBlank(text[i])}
    IN  IF inked = {}
        THEN <<>>
        ELSE [i \in 1..(Max(inked) - Min(inked) + 1) |->
                IF i = 1
                THEN [text[Min(inked)] EXCEPT !.indent = 0]
                ELSE text[Min(inked) + i - 1]]

\* re.sub(rf'\bcolor\s*=\s*{invalid}\b', f'color={valid}', code) and
\* re.sub(rf'\b{invalid}\b(?=\s*[,\)])', valid, code), for CYAN -> TEAL
RewriteColorTokens(body) ==
    IF body = "c = Circle(color=CYAN)" THEN "c = Circle(color=TEAL)" ELSE body

\* re.sub(r'color\s*=\s*["\']#[0-9A-Fa-f]{6}["\']', 'color=BLUE', code)
ReplaceHexColors(body) ==
    IF body = "c = Circle(color='#FF0000')" THEN "c = Circle(color=BLUE)" ELSE body

\* \w+Scene: a class name that ends in "Scene" after at least one more character
EndsInScene(body) ==
    body \in {"class AlgorithmScene(Scene):", "class SortScene(Scene):"}

\* re.sub(r'class\s+\w+Scene\s*\(Scene\)', 'class AlgorithmScene(Scene)', code)
RenameSceneClass(body) ==
    IF EndsInScene(body) THEN "class AlgorithmScene(Scene):" ELSE body

\* the lines ^\s*self\.play\(\s*{name}\([^)]*\)\s*\)\s*$ matches: nothing but
\* the call, played
PlayedHelperCalls == {"self.play(PlotPoint(1))"}

\* the lines ^\s*{name}\([^)]*\)\s*$ matches: nothing but the call
BareHelperCalls == {"PlotPoint(1)"}

\* the replacement text '        self.wait(0.1)'
WaitLine == [indent |-> 8, body |-> "self.wait(0.1)"]

\* under re.M the \s* after ^ and before $ also take the blank lines next to
\* the matched line: line i is blank and only blank lines lie between it and a
\* matched line
TakenByMatch(text, calls, i) ==
    /\ IsBlank(text[i])
    /\ \E k \in 1..Len(text) :
          /\ text[k].body \in calls
          /\ \A j \in 1..Len(text) :
                ((i < j /\ j < k) \/ (k < j /\ j < i)) => IsBlank(text[j])

\* a match that took blank lines after its call ends where the last of them
\* ends; when that line is empty this is also where it starts, ^ matches there
\* again, and the next match takes the newline before the call that follows:
\* the two replacements come out on one line
StartsInPreviousMatch(text, calls, k) ==
    /\ text[k].body \in calls
    /\ k > 2
    /\ IsBlank(text[k - 1]) /\ text[k - 1].indent = 0
    /\ \E k0 \in 1..(k - 2) :
          /\ text[k0].body \in calls
          /\ \A j \in (k0 + 1)..(k - 1) : IsBlank(text[j])

RECURSIVE JoinMatches(_)
JoinMatches(marked) ==
    IF marked = <<>>
    THEN <<>>
    ELSE LET before == JoinMatches(SubSeq(marked, 1, Len(marked) - 1))
             last == marked[Len(marked)]
         IN  IF last.joined
             THEN [before EXCEPT ![Len(before)].body = @ \o "        self.wait(0.1)"]
             ELSE Append(before, last.line)

\* re.sub(pattern, '        self.wait(0.1)', code, flags=re.M) for one pattern
ReplaceCalls(text, calls) ==
    LET marked == [i \in 1..Len(text) |->
                     [line |-> IF text[i].body \in calls THEN WaitLine ELSE text[i],
                      taken |-> TakenByMatch(text, calls, i),
                      joined |-> StartsInPreviousMatch(text, calls, i)]]
    IN  JoinMatches(SelectSeq(marked, LAMBDA m : ~m.taken))

\* the loop over UNKNOWN_HELPERS: the played calls, then the bare calls
ReplaceHelperCalls(text) ==
    ReplaceCalls(ReplaceCalls(text, PlayedHelperCalls), BareHelperCalls)

\* the post-processing of the reply in call_llm_codegen_with_usage
Sanitize(text) ==
    LET unfenced == [i \in 1..Len(text) |->
                       [text[i] EXCEPT !.body = RemoveFence(RemoveFencePython(@))]]
        stripped == Strip(unfenced)
        recolored == [i \in 1..Len(stripped) |->
                        [stripped[i] EXCEPT
                            !.body = ReplaceHexColors(RewriteColorTokens(@))]]
        renamed == [i \in 1..Len(recolored) |->
                      [recolored[i] EXCEPT !.body = RenameSceneClass(@)]]
    IN  ReplaceHelperCalls(renamed)

\* what validate_manim_code_basic searches for, in a text given by its lines;
\* every line drawn has as many "(" as ")"
Features(text) ==
    LET has(bodies) == \E i \in 1..Len(text) : text[i].body \in bodies
    IN  Text(has({"from manim import *"}),
             has({"class AlgorithmScene(Scene):"}),
             has({"def construct(self):"}),
             has(HexBodies),
             has(HelperBodies),
             FALSE)

\* the source every generation call of one request returns: generation gen
Code(gen_, text_) == [gen |-> gen_, text |-> text_]

\* fallback_code, the same literal in both except branches
fallback_code == [gen |-> -1, text |-> CleanText]

CodegenReplies ==
    {[kind |-> "transport_error", text |-> CleanText]}
    \cup {[kind |-> "text", text |-> t] : t \in CodeTexts}

(* --------------------------- render engine ---------------------------- *)

\* outcomes of one subprocess.run(["manim", ...], check=True, timeout=...):
\* clean exit, CalledProcessError, TimeoutExpired, or the process cannot be
\* started; artifact tells whether the engine wrote the output file
RenderOutcomes ==
    {[exit |-> "ok", artifact |-> TRUE],
     [exit |-> "ok", artifact |-> FALSE],
     [exit |-> "nonzero", artifact |-> FALSE],
     [exit |-> "nonzero", artifact |-> TRUE],
     [exit |-> "timeout", artifact |-> FALSE],
     [exit |-> "oserror", artifact |-> FALSE]}

\* media/videos/<stem of the scratch file>/480p15/AlgorithmScene.mp4
video_file(tmp) == [stem |-> tmp, name |-> "AlgorithmScene.mp4"]

\* the existence test left out: any clean exit counts as a success
video_file_exists_unchecked(tmp, disk) == TRUE

\* video_file.exists() against the files on disk
video_file_exists(tmp, disk) == tmp \in disk

\* if attempt == max_render_attempts, in both except branches
last_attempt(a) == a = max_render_attempts

\* the range one iteration too long
loop_exhausted_one_more(a) == a >= max_render_attempts + 1

\* for attempt in range(1, max_render_attempts + 1): no iteration follows a
loop_exhausted(a) == a >= max_render_attempts

RenderEvent(kind_, src_, tmp_, out) ==
    [ev |-> "render", kind |-> kind_, src |-> src_, tmp |-> tmp_,
     exit |-> out.exit, artifact |-> out.artifact]

\* issues = validate_manim_code_basic(code_try) on generation src_
PostCheckEvent(src_, issues) ==
    [ev |-> "post_check", kind |-> IF issues = {} THEN "passed" ELSE "failed",
     src |-> src_, tmp |-> 0, exit |-> "ok", artifact |-> FALSE]

\* the post-check ignored: every candidate but the last is thrown away
retry_codegen_always(issues, a) == a < max_codegen_attempts

\* if issues: ... continue, unless attempt == max_codegen_attempts
retry_codegen(issues, a) == issues # {} /\ a < max_codegen_attempts

RegenEvent(src_) ==
    [ev |-> "regen", kind |-> "primary", src |-> src_, tmp |-> 0,
     exit |-> "ok", artifact |-> FALSE]

(* ------------------------------- state -------------------------------- *)

VARIABLES
    entry,          \* the entry point this run invokes
    pc,             \* position in it
    exc,            \* the exception that left the entry point, or "none"
    domain,
    llm_pattern,
    final_pattern,
    pseudo_ir,      \* the pseudocode document, by its metadata
    classified,     \* what call_llm_detect_domain ended with
    response,       \* what /generate returned
    attn_ir,        \* the attention IR the service generated, by its errors
    validated,      \* validators the handler ran on a generated IR, with their errors
    manim_code,
    gen,            \* generation calls of call_llm_codegen_with_usage so far
    attempt,        \* loop variable of the codegen loop, then of the render loop
    tmp_seq,        \* scratch files created (NamedTemporaryFile names are fresh)
    fs,             \* scratch stems whose output artifact exists on disk
    video_path,
    trace,          \* post-checks of the codegen loop, then render invocations
                    \* and regenerations of the render loop
    max_retries_zero_temp,
    feedback,       \* errors held in the feedback block
    ir_calls,       \* temperature (in tenths) of each call_llm_json_ir call
    ir_attempts,    \* per call: the feedback in its prompt, and what the service
                    \* had to answer it with
    llm_calls,      \* completions requested by the retry loop
    last_errs,      \* errs of the latest validated attempt
    ir_result,      \* outcome of generate_ir_with_validation
    fn,             \* the function a direct call invokes, or "none"
    arg,            \* its argument
    ret,            \* what each call of it handed back, in order
    post_check,     \* what the post-check said of the first result
    requests,       \* the /generate requests in flight, each with its position
    files           \* paths written so far, each with the request that wrote it

generate_vars ==
    <<domain, llm_pattern, final_pattern, pseudo_ir, classified, response, attn_ir, validated,
      manim_code, gen, attempt, tmp_seq, fs, video_path, trace>>

ir_vars ==
    <<max_retries_zero_temp, feedback, ir_calls, ir_attempts, llm_calls, last_errs,
      ir_result>>

fn_vars == <<fn, arg, ret, post_check>>

request_vars == <<requests, files>>

pipeline_vars == <<entry, pc, exc, generate_vars, ir_vars>>

vars == <<pipeline_vars, fn_vars, request_vars>>

\* issues before the post-check has run
NotChecked == {<<"none", "not checked">>}

\* no request is in flight and nothing was written
NoRequests == requests = <<>> /\ files = {}

\* no pseudocode document yet
NoPseudoIr == [metadata_is_dict |-> TRUE, metadata_domain |-> ""]

\* json.loads of the pseudocode completion, then result.setdefault("metadata",
\* {}): metadata is an object without a domain, an object that already names
\* one, or a value that is no object (null)
PseudoIrs ==
    {[metadata_is_dict |-> TRUE, metadata_domain |-> ""],
     [metadata_is_dict |-> TRUE, metadata_domain |-> "sorting"],
     [metadata_is_dict |-> FALSE, metadata_domain |-> ""]}

\* the classifier has not run
NotClassified == [exc |-> "not called", value |-> ""]

\* the statement skipped: the document keeps the metadata it came with
attach_domain_skipped(pseudo, d) == pseudo

\* pseudo_ir["metadata"]["domain"] = domain
attach_domain(pseudo, d) == [pseudo EXCEPT !.metadata_domain = d]

NoResponse ==
    [sent |-> FALSE, keys |-> {}, errors |-> {}, video_path |-> NoPath]

NoDoc == [components |-> <<>>, events |-> <<>>]

NoResult == [returned |-> FALSE, doc |-> NoDoc, message |-> {}]

Init ==
    /\ entry \in {"generate", "generate_ir_with_validation"}
    /\ pc = IF entry = "generate" THEN "pseudocode" ELSE "zero_temp"
    /\ exc = "none"
    /\ domain = ""
    /\ llm_pattern = ""
    /\ final_pattern = ""
    /\ pseudo_ir = NoPseudoIr
    /\ classified = NotClassified
    /\ response = NoResponse
    /\ attn_ir = [generated |-> FALSE, errors |-> {}]
    /\ validated = {}
    /\ manim_code = NoCode
    /\ gen = 0
    /\ attempt = 0
    /\ tmp_seq = 0
    /\ fs = {}
    /\ video_path = NoPath
    /\ trace = <<>>
    /\ max_retries_zero_temp \in
          IF entry = "generate" THEN {0} ELSE 0..MaxRetries
    /\ feedback = {}
    /\ ir_calls = <<>>
    /\ ir_attempts = <<>>
    /\ llm_calls = 0
    /\ last_errs = {}
    /\ ir_result = NoResult
    /\ fn = "none"
    /\ arg = <<>>
    /\ ret = <<>>
    /\ post_check = NotChecked
    /\ NoRequests

\* an exception leaves the handler
Propagate(e) ==
    /\ pc' = "raised"
    /\ exc' = e

(* ------------------------ POST /generate handler ---------------------- *)

\* 1) call_llm_pseudocode_ir_with_usage: a completion and json.loads, not guarded
Pseudocode ==
    /\ entry = "generate" /\ pc = "pseudocode"
    /\ \E reply \in {"ok", "transport_error", "malformed"}, result \in PseudoIrs :
          CASE reply = "ok" ->
                  /\ pseudo_ir' = result
                  /\ pc' = "detect_domain"
                  /\ UNCHANGED exc
            [] reply = "transport_error" ->
                  Propagate("APIConnectionError") /\ UNCHANGED pseudo_ir
            [] OTHER -> Propagate("JSONDecodeError") /\ UNCHANGED pseudo_ir
    /\ UNCHANGED <<request_vars, fn_vars, entry, domain, llm_pattern, final_pattern,
                   classified, response, attn_ir, validated, manim_code, gen, attempt,
                   tmp_seq, fs, video_path, trace, ir_vars>>

\* 2) domain classification inside try/except Exception, then the attachment
\*    pseudo_ir["metadata"]["domain"] = domain
DetectDomain ==
    /\ entry = "generate" /\ pc = "detect_domain"
    /\ \E reply \in DomainReplies :
          LET r == call_llm_detect_domain(reply)
              d == IF r.exc = "none" THEN r.value ELSE "generic"
          IN  /\ classified' = r
              /\ domain' = d
              /\ IF pseudo_ir.metadata_is_dict
                 THEN /\ pseudo_ir' = attach_domain(pseudo_ir, d)
                      /\ pc' = "pattern"
                      /\ UNCHANGED exc
                 ELSE /\ Propagate("TypeError")
                      /\ UNCHANGED pseudo_ir
    /\ UNCHANGED <<request_vars, fn_vars, entry, llm_pattern, final_pattern, response, attn_ir, validated, manim_code,
                   gen, attempt, tmp_seq, fs, video_path, trace, ir_vars>>

\* 3) llm_pattern = call_llm_pattern(user_text), called outside any try, and
\* 4) final_pattern = resolve_pattern(domain, llm_pattern)
RecommendPattern ==
    /\ entry = "generate" /\ pc = "pattern"
    /\ \E reply \in PatternReplies :
          LET r == call_llm_pattern(reply)
          IN  IF r.exc = "none"
              THEN /\ llm_pattern' = r.value
                   /\ final_pattern' = resolve_pattern(domain, r.value)
                   /\ pc' = "dispatch"
                   /\ UNCHANGED exc
              ELSE /\ Propagate(r.exc)
                   /\ UNCHANGED <<llm_pattern, final_pattern>>
    /\ UNCHANGED <<request_vars, fn_vars, entry, domain, pseudo_ir, classified, response, attn_ir, validated, manim_code, gen, attempt,
                   tmp_seq, fs, video_path, trace, ir_vars>>

Respond(keys_, errors_, path_) ==
    /\ response' = [sent |-> TRUE, keys |-> keys_, errors |-> errors_,
                    video_path |-> path_]
    /\ pc' = "done"
    /\ UNCHANGED exc

\* call_llm_domain_ir(domain, ...): a completion and json.loads; the object
\* parsed holds the fields the template asks for ("ok") or lacks them
\* ("incomplete")
DomainIrReplies == {"ok", "incomplete", "transport_error", "malformed"}

\* the dedicated renderers run subprocess.run(cmd, check=True) with no timeout
DedicatedRenderOutcomes == {"ok", "nonzero", "oserror"}

DedicatedRender(out, keys_, name_) ==
    CASE out = "ok" -> Respond(keys_, {}, [stem |-> 0, name |-> name_])
      [] out = "nonzero" -> Propagate("CalledProcessError") /\ UNCHANGED response
      [] OTHER -> Propagate("FileNotFoundError") /\ UNCHANGED response

\* --- CNN ---
CnnPath ==
    /\ entry = "generate" /\ pc = "dispatch"
    /\ domain = "cnn_param" /\ final_pattern = "grid"
    /\ \E reply \in DomainIrReplies, out \in DedicatedRenderOutcomes :
          CASE reply \in {"ok", "incomplete"} ->
                  DedicatedRender(out, {"domain", "pattern", "cnn_ir", "video_path"},
                                  "cnn_param_demo.mp4")
            [] reply = "transport_error" ->
                  Propagate("APIConnectionError") /\ UNCHANGED response
            [] OTHER -> Propagate("JSONDecodeError") /\ UNCHANGED response
    /\ UNCHANGED <<request_vars, fn_vars, entry, domain, llm_pattern, final_pattern, pseudo_ir, classified,
                   attn_ir, validated, manim_code, gen, attempt, tmp_seq, fs, video_path, trace,
                   ir_vars>>

\* --- SORTING ---
SortingPath ==
    /\ entry = "generate" /\ pc = "dispatch"
    /\ domain = "sorting" /\ final_pattern = "sequence"
    /\ \E reply \in DomainIrReplies, out \in DedicatedRenderOutcomes :
          CASE reply \in {"ok", "incomplete"} ->
                  DedicatedRender(out,
                                  {"domain", "pattern", "sorting_trace", "video_path"},
                                  "sorting_demo.mp4")
            [] reply = "transport_error" ->
                  Propagate("APIConnectionError") /\ UNCHANGED response
            [] OTHER -> Propagate("JSONDecodeError") /\ UNCHANGED response
    /\ UNCHANGED <<request_vars, fn_vars, entry, domain, llm_pattern, final_pattern, pseudo_ir, classified,
                   attn_ir, validated, manim_code, gen, attempt, tmp_seq, fs, video_path, trace,
                   ir_vars>>

AttnReplies ==
    {[kind |-> "transport_error"], [kind |-> "malformed"]}
    \cup {[kind |-> "doc", doc |-> d] : d \in AttnDocs}

\* call_llm_domain_ir("seq_attention", ...) and then the validator: a document
\* with errors leaves call_llm_attention_ir as a ValueError
call_llm_attention_ir(reply) ==
    CASE reply.kind = "transport_error" -> Raise("APIConnectionError")
      [] reply.kind = "malformed" -> Raise("JSONDecodeError")
      [] OTHER ->
            IF validate_attention_ir(reply.doc) # {}
            THEN Raise("ValueError")
            ELSE Ok(reply.doc)

\* --- TRANSFORMER ---
TransformerPath ==
    /\ entry = "generate" /\ pc = "dispatch"
    /\ domain = "transformer" /\ final_pattern = "seq_attention"
    /\ \E reply \in AttnReplies, out \in DedicatedRenderOutcomes :
          LET r == call_llm_attention_ir(reply)
          IN  /\ attn_ir' = IF reply.kind = "doc"
                            THEN [generated |-> TRUE,
                                  errors |-> validate_attention_ir(reply.doc)]
                            ELSE attn_ir
              /\ validated' = IF reply.kind = "doc"
                              THEN {[validator |-> "validate_attention_ir",
                                     errors |-> validate_attention_ir(reply.doc)]}
                              ELSE validated
              /\ IF r.exc # "none"
                 THEN Propagate(r.exc) /\ UNCHANGED response
                 ELSE LET errors == validate_attention_ir(r.value)
                      IN  IF errors # {}
                          THEN Respond({"domain", "pattern", "errors"}, errors, NoPath)
                          ELSE DedicatedRender(out,
                                   {"domain", "pattern", "attention_ir", "video_path"},
                                   "attn_demo.mp4")
    /\ UNCHANGED <<request_vars, fn_vars, entry, domain, llm_pattern, final_pattern, pseudo_ir, classified,
                   manim_code, gen, attempt, tmp_seq, fs, video_path, trace,
                   ir_vars>>

RepresentativePath ==
    \/ domain = "cnn_param" /\ final_pattern = "grid"
    \/ domain = "sorting" /\ final_pattern = "sequence"
    \/ domain = "transformer" /\ final_pattern = "seq_attention"

\* Step 1 of the generic path: call_llm_anim_ir_with_usage(pseudo_ir)
AnimIr ==
    /\ entry = "generate" /\ pc = "dispatch"
    /\ ~RepresentativePath
    /\ \E reply \in {"ok", "transport_error", "malformed"} :
          CASE reply = "ok" ->
                  /\ pc' = "codegen"
                  /\ attempt' = 1
                  /\ UNCHANGED exc
            [] reply = "transport_error" ->
                  Propagate("APIConnectionError") /\ UNCHANGED attempt
            [] OTHER -> Propagate("JSONDecodeError") /\ UNCHANGED attempt
    /\ UNCHANGED <<request_vars, fn_vars, entry, domain, llm_pattern, final_pattern, pseudo_ir, classified, response,
                   attn_ir, validated, manim_code, gen, tmp_seq, fs, video_path, trace, ir_vars>>

\* Step 2: one iteration of the code-generation post-check loop
CodeGenAttempt ==
    /\ entry = "generate" /\ pc = "codegen"
    /\ \E reply \in CodegenReplies :
          IF reply.kind = "transport_error"
          THEN /\ Propagate("APIConnectionError")
               /\ UNCHANGED <<manim_code, gen, attempt, trace>>
          ELSE LET code_try == Code(gen + 1, reply.text)
                   issues == validate_manim_code_basic(reply.text)
               IN  /\ gen' = gen + 1
                   /\ trace' = Append(trace, PostCheckEvent(gen + 1, issues))
                   /\ UNCHANGED exc
                   /\ IF retry_codegen(issues, attempt)
                      THEN /\ attempt' = attempt + 1
                           /\ UNCHANGED <<pc, manim_code>>
                      ELSE /\ manim_code' = code_try
                           /\ attempt' = 1
                           /\ pc' = "render"
    /\ UNCHANGED <<request_vars, fn_vars, entry, domain, llm_pattern, final_pattern, pseudo_ir, classified, response,
                   attn_ir, validated, tmp_seq, fs, video_path, ir_vars>>

\* Step 3: one iteration of the render loop: scratch file, primary render, and
\* what the branch taken does next (break, next iteration, regeneration, or
\* hand-over to the fallback render)
RenderAttempt ==
    /\ entry = "generate" /\ pc = "render"
    /\ \E out \in RenderOutcomes, regen \in CodegenReplies :
          LET tmp == tmp_seq + 1
              ev == RenderEvent("primary", manim_code.gen, tmp, out)
              disk == IF out.artifact THEN fs \cup {tmp} ELSE fs
          IN  /\ tmp_seq' = tmp
              /\ fs' = disk
              /\ CASE out.exit = "ok" ->
                        /\ trace' = Append(trace, ev)
                        /\ UNCHANGED <<exc, manim_code, gen>>
                        /\ IF video_file_exists(tmp, disk)
                           THEN /\ video_path' = video_file(tmp)
                                /\ pc' = "return"
                                /\ UNCHANGED attempt
                           ELSE /\ UNCHANGED video_path
                                /\ IF loop_exhausted(attempt)
                                   THEN pc' = "return" /\ UNCHANGED attempt
                                   ELSE attempt' = attempt + 1 /\ UNCHANGED pc
                   [] out.exit \in {"nonzero", "timeout"} ->
                        /\ UNCHANGED video_path
                        /\ IF last_attempt(attempt)
                           THEN /\ trace' = Append(trace, ev)
                                /\ pc' = "fallback"
                                /\ UNCHANGED <<exc, manim_code, gen, attempt>>
                           ELSE IF regen.kind = "transport_error"
                                THEN /\ trace' = Append(trace, ev)
                                     /\ Propagate("APIConnectionError")
                                     /\ UNCHANGED <<manim_code, gen, attempt>>
                                ELSE /\ trace' = trace \o <<ev, RegenEvent(gen + 1)>>
                                     /\ manim_code' = Code(gen + 1, regen.text)
                                     /\ gen' = gen + 1
                                     /\ UNCHANGED exc
                                     /\ IF loop_exhausted(attempt)
                                        THEN pc' = "return" /\ UNCHANGED attempt
                                        ELSE attempt' = attempt + 1 /\ UNCHANGED pc
                   [] OTHER ->
                        /\ trace' = Append(trace, ev)
                        /\ Propagate("FileNotFoundError")
                        /\ UNCHANGED <<video_path, manim_code, gen, attempt>>
    /\ UNCHANGED <<request_vars, fn_vars, entry, domain, llm_pattern, final_pattern, pseudo_ir, classified, response,
                   attn_ir, validated, ir_vars>>

\* the fallback render inside the except branch of the last attempt; its own
\* failures are caught by except Exception, and the loop breaks
FallbackRender ==
    /\ entry = "generate" /\ pc = "fallback"
    /\ \E out \in RenderOutcomes :
          LET fb == tmp_seq + 1
              disk == IF out.artifact THEN fs \cup {fb} ELSE fs
          IN  /\ tmp_seq' = fb
              /\ fs' = disk
              /\ trace' = Append(trace, RenderEvent("fallback", fallback_code.gen, fb, out))
              /\ video_path' = IF out.exit = "ok" /\ video_file_exists(fb, disk)
                               THEN video_file(fb) ELSE video_path
    /\ pc' = "return"
    /\ UNCHANGED <<request_vars, fn_vars, entry, exc, domain, llm_pattern, final_pattern, pseudo_ir, classified,
                   response, attn_ir, validated, manim_code, gen, attempt, ir_vars>>

\* return {"domain", "pattern", "pseudocode_ir", "anim_ir", "video_path"}
Return ==
    /\ entry = "generate" /\ pc = "return"
    /\ Respond({"domain", "pattern", "pseudocode_ir", "anim_ir", "video_path"},
               {}, video_path)
    /\ UNCHANGED <<request_vars, fn_vars, entry, domain, llm_pattern, final_pattern, pseudo_ir, classified,
                   attn_ir, validated, manim_code, gen, attempt, tmp_seq, fs, video_path, trace,
                   ir_vars>>

(* -------------------- generate_ir_with_validation --------------------- *)

\* parameters of def call_llm_stage1(user_text)
Stage1Params == {"user_text"}

\* parameters of def call_llm_stage2(explain_json, temperature=0.0)
Stage2Params == {"explain_json", "temperature"}

\* the documents stage 2 answers the retry loop with: at most one component
LoopDocs ==
    [components : SeqsUpTo(IrComponents, 1),
     events : SeqsUpTo(IrEvents, MaxIrLen)]

IrReplies ==
    {[kind |-> "transport_error", doc |-> NoDoc],
     [kind |-> "malformed", doc |-> NoDoc]}
    \cup {[kind |-> "doc", doc |-> d] : d \in LoopDocs}

\* call_llm_json_ir passes temperature=... to stage 1 and to stage 2; a keyword
\* the callee does not declare is a TypeError raised before the callee runs.
\* completions counts the chat completions requested.
call_llm_json_ir(reply) ==
    IF "temperature" \notin Stage1Params
    THEN [exc |-> "TypeError", value |-> NoDoc, completions |-> 0]
    ELSE IF "temperature" \notin Stage2Params
    THEN [exc |-> "TypeError", value |-> NoDoc, completions |-> 1]
    ELSE CASE reply.kind = "transport_error" ->
                [exc |-> "APIConnectionError", value |-> NoDoc, completions |-> 1]
           [] reply.kind = "malformed" ->
                [exc |-> "JSONDecodeError", value |-> NoDoc, completions |-> 2]
           [] OTHER -> [exc |-> "none", value |-> reply.doc, completions |-> 2]

\* one call: user_text + ("\n\n" + feedback if feedback else "") is its prompt,
\* and reply is what the service has for it, with the errors validation finds
\* in that document
Attempted(feedback_, reply) ==
    [prompt |-> feedback_,
     offered |-> reply.kind,
     raises |-> IF reply.kind = "doc" THEN ir_validation(reply.doc).exc ELSE "none",
     errs |-> IF reply.kind = "doc" THEN ir_validation(reply.doc).errs ELSE {}]

\* temperatures in tenths: 0.0 in the loop, 0.3 in the last call
ZeroTemperature == 0

RaisedTemperature == 3

\* one call_llm_json_ir + validation: an iteration of the zero-temperature loop
\* (pc = "zero_temp") or the call after it (pc = "raised_temp")
IrAttempt ==
    /\ entry = "generate_ir_with_validation"
    /\ pc \in {"zero_temp", "raised_temp"}
    /\ \E reply \in IrReplies :
          LET temperature == IF pc = "zero_temp" THEN ZeroTemperature
                             ELSE RaisedTemperature
              r == call_llm_json_ir(reply)
              v == ir_validation(r.value)
          IN  /\ ir_calls' = Append(ir_calls, temperature)
              /\ ir_attempts' = Append(ir_attempts, Attempted(feedback, reply))
              /\ llm_calls' = llm_calls + r.completions
              /\ last_errs' = IF r.exc = "none" /\ v.exc = "none"
                              THEN v.errs ELSE last_errs
              /\ IF r.exc # "none"
                 THEN /\ Propagate(r.exc)
                      /\ UNCHANGED <<feedback, attempt, ir_result>>
                 ELSE IF v.exc # "none"
                 THEN /\ Propagate(v.exc)
                      /\ UNCHANGED <<feedback, attempt, ir_result>>
                 ELSE IF v.errs = {}
                 THEN /\ ir_result' = [returned |-> TRUE, doc |-> r.value,
                                       message |-> {}]
                      /\ pc' = "returned"
                      /\ UNCHANGED <<exc, feedback, attempt>>
                 ELSE IF pc = "zero_temp"
                 THEN /\ feedback' = v.errs
                      /\ IF attempt < max_retries_zero_temp
                         THEN attempt' = attempt + 1 /\ UNCHANGED pc
                         ELSE pc' = "raised_temp" /\ UNCHANGED attempt
                      /\ UNCHANGED <<exc, ir_result>>
                 ELSE /\ Propagate("ValueError")
                      /\ ir_result' = [returned |-> FALSE, doc |-> NoDoc,
                                       message |-> v.errs]
                      /\ UNCHANGED <<feedback, attempt>>
    /\ UNCHANGED <<request_vars, fn_vars, entry, domain, llm_pattern, final_pattern, pseudo_ir, classified, response,
                   attn_ir, validated, manim_code, gen, tmp_seq, fs, video_path, trace,
                   max_retries_zero_temp>>

(* --------------------------- specification ---------------------------- *)

Next ==
    \/ Pseudocode
    \/ DetectDomain
    \/ RecommendPattern
    \/ CnnPath
    \/ SortingPath
    \/ TransformerPath
    \/ AnimIr
    \/ CodeGenAttempt
    \/ RenderAttempt
    \/ FallbackRender
    \/ Return
    \/ IrAttempt

Spec == Init /\ [][Next]_vars


(* ------------------------- direct calls ------------------------------- *)

\* calls made of one function on one argument
MaxCalls == 2

\* the variables of the single-request handler and of the retry loop are at
\* their initial values
SingleRequestUnused ==
    /\ exc = "none"
    /\ domain = "" /\ llm_pattern = "" /\ final_pattern = ""
    /\ pseudo_ir = NoPseudoIr
    /\ classified = NotClassified
    /\ response = NoResponse
    /\ attn_ir = [generated |-> FALSE, errors |-> {}]
    /\ validated = {}
    /\ manim_code = NoCode
    /\ gen = 0 /\ attempt = 0 /\ tmp_seq = 0 /\ fs = {}
    /\ video_path = NoPath /\ trace = <<>>
    /\ max_retries_zero_temp = 0 /\ feedback = {} /\ ir_calls = <<>>
    /\ ir_attempts = <<>>
    /\ llm_calls = 0 /\ last_errs = {} /\ ir_result = NoResult

\* the request handler and the retry loop are not running
NotInvoked ==
    /\ entry = "none" /\ pc = "idle"
    /\ SingleRequestUnused
    /\ NoRequests

(* resolve_pattern(domain, llm_pattern) *)

ResolveDomains ==
    DomainKeys \cup {"", "generic", "quantum", "Sorting", "grid", None}

ResolvePatterns ==
    VALID_PATTERNS
    \cup {"", "GRID", "Sequence", "Flow", "Graph", "SEQ_ATTENTION", "heatmap",
          "Heatmap", "sorting", None}

\* the call: llm_pattern.lower() is reached when the table has no entry for
\* domain, and None has no lower()
resolve_pattern_call(domain_, llm_pattern_) ==
    IF domain_ \notin DOMAIN DOMAIN_TO_PATTERN /\ llm_pattern_ = None
    THEN Raise("AttributeError")
    ELSE Ok(resolve_pattern(domain_, llm_pattern_))

InitResolve ==
    /\ NotInvoked
    /\ fn = "resolve_pattern"
    /\ arg \in [domain : ResolveDomains, llm_pattern : ResolvePatterns]
    /\ ret = <<>>
    /\ post_check = NotChecked

ResolvePattern ==
    /\ fn = "resolve_pattern"
    /\ Len(ret) < MaxCalls
    /\ ret' = Append(ret, resolve_pattern_call(arg.domain, arg.llm_pattern))
    /\ UNCHANGED <<request_vars, pipeline_vars, fn, arg, post_check>>

NextResolve == ResolvePattern

SpecResolve == InitResolve /\ [][NextResolve]_vars


(* the validators *)

VariantValidators ==
    {"validate_grid_ir", "validate_sequence_ir", "validate_flow_ir",
     "validate_hash_table_ir", "validate_graph_ir"}

InitValidate ==
    /\ NotInvoked
    /\ fn \in {"validate_ir", "validate_attention_ir"} \cup VariantValidators
    /\ arg \in CASE fn = "validate_ir" -> IrDocs
                 [] fn = "validate_attention_ir" -> AttnDocs
                 [] OTHER -> VariantDocs
    /\ ret = <<>>
    /\ post_check = NotChecked

\* a validator returns its error list
Validated(errors) ==
    /\ ret = <<>>
    /\ ret' = <<[exc |-> "none", errs |-> errors]>>
    /\ UNCHANGED <<request_vars, pipeline_vars, fn, arg, post_check>>

\* validate_ir(doc) = schema_errors(doc) + invariants_errors(doc)
ValidateIr ==
    /\ fn = "validate_ir"
    /\ ret = <<>>
    /\ ret' = <<ir_validation(arg)>>
    /\ UNCHANGED <<request_vars, pipeline_vars, fn, arg, post_check>>

ValidateAttentionIr ==
    /\ fn = "validate_attention_ir"
    /\ Validated(validate_attention_ir(arg))

ValidateGridIr ==
    /\ fn = "validate_grid_ir"
    /\ Validated(validate_grid_ir(arg))

ValidateSequenceIr ==
    /\ fn = "validate_sequence_ir"
    /\ Validated(validate_sequence_ir(arg))

ValidateFlowIr ==
    /\ fn = "validate_flow_ir"
    /\ Validated(validate_flow_ir(arg))

ValidateHashTableIr ==
    /\ fn = "validate_hash_table_ir"
    /\ Validated(validate_hash_table_ir(arg))

ValidateGraphIr ==
    /\ fn = "validate_graph_ir"
    /\ Validated(validate_graph_ir(arg))

NextValidate ==
    \/ ValidateIr
    \/ ValidateAttentionIr
    \/ ValidateGridIr
    \/ ValidateSequenceIr
    \/ ValidateFlowIr
    \/ ValidateHashTableIr
    \/ ValidateGraphIr

SpecValidate == InitValidate /\ [][NextValidate]_vars


(* the sanitizing pass and the post-check *)

InitSanitize ==
    /\ NotInvoked
    /\ fn = "call_llm_codegen_with_usage"
    /\ arg \in ReplyTexts
    /\ ret = <<>>
    /\ post_check = NotChecked

\* the pass on the reply, then on its own output
SanitizePass ==
    /\ fn = "call_llm_codegen_with_usage"
    /\ Len(ret) < MaxCalls
    /\ ret' = Append(ret, Sanitize(IF ret = <<>> THEN arg ELSE ret[Len(ret)]))
    /\ UNCHANGED <<request_vars, pipeline_vars, fn, arg, post_check>>

\* issues = validate_manim_code_basic(code) on the sanitized reply
PostCheck ==
    /\ fn = "call_llm_codegen_with_usage"
    /\ Len(ret) >= 1
    /\ post_check = NotChecked
    /\ post_check' = validate_manim_code_basic(Features(ret[1]))
    /\ UNCHANGED <<request_vars, pipeline_vars, fn, arg, ret>>

NextSanitize ==
    \/ SanitizePass
    \/ PostCheck

SpecSanitize == InitSanitize /\ [][NextSanitize]_vars


(* ------------------- concurrent /generate requests -------------------- *)

\* requests in flight at once
MaxRequests == 2

Requests == 1..MaxRequests

\* what the classifier and the pattern recommendation hand a request
RequestDomains == {"cnn_param", "transformer", "math", "generic"}

RequestPatterns == {"flow", "grid"}

\* cnn_ir.get("basename", "cnn_param_demo"): the name the generated IR holds
CnnBasenames == {"cnn_param_demo", "conv"}

\* debug_path = f"debug_generated_code_{domain}.py"
debug_path(domain_) == "debug_generated_code_" \o domain_ \o ".py"

\* tmp.name of the n-th NamedTemporaryFile(suffix=".py", delete=False): the
\* name is fresh for every file created
tmp_path(n) == "/tmp/tmp" \o ToString(n) \o ".py"

\* Path("media/videos") / Path(tmp_path).stem / "480p15" / "AlgorithmScene.mp4"
video_file_path(n) == "media/videos/tmp" \o ToString(n) \o "/480p15/AlgorithmScene.mp4"

\* where the engine puts the file named with -o: under the scratch file's stem
named_output_path(n, out_basename) ==
    "media/videos/tmp" \o ToString(n) \o "/480p15/" \o out_basename \o ".mp4"

\* MEDIA_DIR / f"{out_basename}.{fmt}", what a dedicated renderer returns
media_dir_path(scene, out_basename) ==
    "media/videos/" \o scene \o "/" \o out_basename \o ".mp4"

NoVideo == "None"

NewRequest ==
    [pc |-> "accepted", domain |-> "", final_pattern |-> "", attempt |-> 0,
     video_path |-> NoVideo]

\* one write of a path: by request r, in iteration a of the loop it is in
\* (0 outside the render loop)
Written(path_, r, a) == [path |-> path_, request |-> r, attempt |-> a]

InitRequests ==
    /\ entry = "generate" /\ pc = "requests"
    /\ SingleRequestUnused
    /\ fn = "none" /\ arg = <<>> /\ ret = <<>> /\ post_check = NotChecked
    /\ requests = [r \in Requests |-> NewRequest]
    /\ files = {}

\* stages 1) to 4): pseudocode, domain, pattern, resolve_pattern; no file is
\* touched, and a failing completion ends the request
Stages(r) ==
    /\ requests[r].pc = "accepted"
    /\ \E ok \in BOOLEAN, d \in RequestDomains, p \in RequestPatterns :
          requests' = [requests EXCEPT ![r] =
                          IF ok
                          THEN [@ EXCEPT !.pc = "dispatch", !.domain = d,
                                         !.final_pattern = resolve_pattern(d, p)]
                          ELSE [@ EXCEPT !.pc = "raised"]]
    /\ UNCHANGED <<pipeline_vars, fn_vars, files>>

RepresentativeRequest(r) ==
    \/ requests[r].domain = "cnn_param" /\ requests[r].final_pattern = "grid"
    \/ requests[r].domain = "transformer"
          /\ requests[r].final_pattern = "seq_attention"

\* 5) a dedicated renderer: the scene goes to a scratch file, the engine is
\* run on it with -o <out_basename>.<fmt>, and MEDIA_DIR/<out_basename>.<fmt>
\* is handed back
DedicatedRequest(r) ==
    /\ requests[r].pc = "dispatch"
    /\ RepresentativeRequest(r)
    /\ \E ir_ok \in BOOLEAN, out \in DedicatedRenderOutcomes, b \in CnnBasenames :
          LET n == tmp_seq + 1
              cnn == requests[r].domain = "cnn_param"
              out_basename == IF cnn THEN b ELSE "attn_demo"
              scene == IF cnn THEN "CNNScene" ELSE "SeqAttentionScene"
          IN  IF ~ir_ok
              THEN /\ requests' = [requests EXCEPT ![r].pc = "raised"]
                   /\ UNCHANGED <<tmp_seq, files>>
              ELSE /\ tmp_seq' = n
                   /\ files' = files \cup {Written(tmp_path(n), r, 0)}
                                 \cup (IF out = "ok"
                                       THEN {Written(named_output_path(n, out_basename), r, 0)}
                                       ELSE {})
                   /\ requests' = [requests EXCEPT ![r] =
                          IF out = "ok"
                          THEN [@ EXCEPT !.pc = "done",
                                         !.video_path = media_dir_path(scene, out_basename)]
                          ELSE [@ EXCEPT !.pc = "raised"]]
    /\ UNCHANGED <<entry, pc, exc, domain, llm_pattern, final_pattern, pseudo_ir, classified,
                   response, attn_ir, validated, manim_code, gen, attempt, fs, video_path,
                   trace, ir_vars, fn_vars>>

\* 6) animation IR and the code-generation loop: completions only
GenerateCode(r) ==
    /\ requests[r].pc = "dispatch"
    /\ ~RepresentativeRequest(r)
    /\ \E ok \in BOOLEAN :
          requests' = [requests EXCEPT ![r].pc = IF ok THEN "debug" ELSE "raised"]
    /\ UNCHANGED <<pipeline_vars, fn_vars, files>>

\* with open(debug_path, "w") as f: f.write(manim_code or "")
SaveDebugCopy(r) ==
    /\ requests[r].pc = "debug"
    /\ files' = files \cup {Written(debug_path(requests[r].domain), r, 0)}
    /\ requests' = [requests EXCEPT ![r].pc = "render", ![r].attempt = 1]
    /\ UNCHANGED <<pipeline_vars, fn_vars>>

\* one iteration of the render loop: a new scratch file, the engine run on it
RenderIteration(r) ==
    /\ requests[r].pc = "render"
    /\ \E out \in RenderOutcomes, regen_ok \in BOOLEAN :
          LET n == tmp_seq + 1
              a == requests[r].attempt
              found == out.exit = "ok" /\ out.artifact
          IN  /\ tmp_seq' = n
              /\ files' = files \cup {Written(tmp_path(n), r, a)}
                            \cup (IF out.artifact
                                  THEN {Written(video_file_path(n), r, a)} ELSE {})
              /\ requests' = [requests EXCEPT ![r] =
                    CASE found ->
                           [@ EXCEPT !.pc = "done", !.video_path = video_file_path(n)]
                      [] out.exit = "ok" /\ ~out.artifact ->
                           IF loop_exhausted(a)
                           THEN [@ EXCEPT !.pc = "done"]
                           ELSE [@ EXCEPT !.attempt = a + 1]
                      [] out.exit \in {"nonzero", "timeout"} ->
                           IF last_attempt(a)
                           THEN [@ EXCEPT !.pc = "fallback"]
                           ELSE IF regen_ok
                                THEN [@ EXCEPT !.attempt = a + 1]
                                ELSE [@ EXCEPT !.pc = "raised"]
                      [] OTHER -> [@ EXCEPT !.pc = "raised"]]
    /\ UNCHANGED <<entry, pc, exc, domain, llm_pattern, final_pattern, pseudo_ir, classified,
                   response, attn_ir, validated, manim_code, gen, attempt, fs, video_path,
                   trace, ir_vars, fn_vars>>

\* the fallback template: one more scratch file, one more run
FallbackIteration(r) ==
    /\ requests[r].pc = "fallback"
    /\ \E out \in RenderOutcomes :
          LET n == tmp_seq + 1
              a == requests[r].attempt + 1
              found == out.exit = "ok" /\ out.artifact
          IN  /\ tmp_seq' = n
              /\ files' = files \cup {Written(tmp_path(n), r, a)}
                            \cup (IF out.artifact
                                  THEN {Written(video_file_path(n), r, a)} ELSE {})
              /\ requests' = [requests EXCEPT ![r] =
                    [@ EXCEPT !.pc = "done",
                              !.video_path = IF found THEN video_file_path(n)
                                             ELSE NoVideo]]
    /\ UNCHANGED <<entry, pc, exc, domain, llm_pattern, final_pattern, pseudo_ir, classified,
                   response, attn_ir, validated, manim_code, gen, attempt, fs, video_path,
                   trace, ir_vars, fn_vars>>

NextRequests ==
    \E r \in Requests :
        \/ Stages(r)
        \/ DedicatedRequest(r)
        \/ GenerateCode(r)
        \/ SaveDebugCopy(r)
        \/ RenderIteration(r)
        \/ FallbackIteration(r)

SpecRequests == InitRequests /\ [][NextRequests]_vars

(* ============================== claims ================================ *)

Terminated == pc \in {"done", "returned", "raised"}

\* the generative service itself failed (no document came back)
ServiceFailed == exc \in {"APIConnectionError", "JSONDecodeError"}

PrimaryRenders ==
    SelectSeq(trace, LAMBDA e : e.ev = "render" /\ e.kind = "primary")

FallbackRenders ==
    SelectSeq(trace, LAMBDA e : e.ev = "render" /\ e.kind = "fallback")

\* the failures the render controller recognises: non-zero exit, timeout, or
\* clean exit without the artifact
RecognisedFailure(e) ==
    \/ e.exit \in {"nonzero", "timeout"}
    \/ e.exit = "ok" /\ ~e.artifact

AllPrimaryFailed ==
    \A i \in 1..Len(PrimaryRenders) : RecognisedFailure(PrimaryRenders[i])

\* C1: against a generator that never yields a valid document, a run of
\* generate_ir_with_validation with max_retries_zero_temp = N ends after exactly
\* N+1 attempts at temperature 0 and one at the raised temperature, with a
\* non-empty validation error list.
C1_RetryBound ==
    (/\ entry = "generate_ir_with_validation"
     /\ Terminated
     /\ ~ir_result.returned
     /\ ~ServiceFailed)
    => /\ ir_calls = [i \in 1..(max_retries_zero_temp + 2) |->
                        IF i <= max_retries_zero_temp + 1
                        THEN ZeroTemperature ELSE RaisedTemperature]
       /\ exc = "ValueError"
       /\ ir_result.message # {}

\* C2: generate_ir_with_validation ends either by returning a document with an
\* empty validation error list, or, without returning a document, by an error
\* that carries every validation message of the last attempt.
C2_ValidDocumentOrErrorList ==
    (/\ entry = "generate_ir_with_validation"
     /\ Terminated
     /\ ~ServiceFailed)
    => IF ir_result.returned
       THEN /\ ~invariants_raises(ir_result.doc)
            /\ schema_errors(ir_result.doc) \cup invariants_errors(ir_result.doc) = {}
       ELSE /\ exc = "ValueError"
            /\ last_errs # {}
            /\ ir_result.message = last_errs

\* C3: once all 3 primary render attempts have failed, by whatever recognised
\* kind of failure, the fallback source has been rendered exactly once when the
\* render loop is left.
C3_FallbackOnExhaustion ==
    (/\ pc \in {"return", "done"}
     /\ Len(PrimaryRenders) = 3
     /\ AllPrimaryFailed)
    => Len(FallbackRenders) = 1

\* C4: if every primary render failed in a recognised way and the engine
\* succeeds on the fallback source, the request ends with a response whose
\* video_path is the fallback artifact's path, and not with an exception.
C4_FallbackGuarantee ==
    (/\ entry = "generate"
     /\ Terminated
     /\ Len(PrimaryRenders) = 3
     /\ AllPrimaryFailed
     /\ \A i \in 1..Len(FallbackRenders) :
           FallbackRenders[i].exit = "ok" /\ FallbackRenders[i].artifact)
    => /\ pc = "done"
       /\ Len(FallbackRenders) = 1
       /\ response.video_path = video_file(FallbackRenders[1].tmp)

\* C5: video_path is only ever the artifact path of a render that exited
\* cleanly and whose output file exists; a clean exit without the file, or a
\* failed exit, never populates it.
C5_SuccessNeedsArtifact ==
    /\ \A i \in DOMAIN trace :
          (trace[i].ev = "render" /\ video_path = video_file(trace[i].tmp))
          => (trace[i].exit = "ok" /\ trace[i].artifact /\ trace[i].tmp \in fs)
    /\ video_path # NoPath
       => \E i \in DOMAIN trace :
             trace[i].ev = "render" /\ video_path = video_file(trace[i].tmp)

\* a clean exit without artifact happened, and a later render succeeded
C5_Witness ==
    /\ video_path # NoPath
    /\ \E i \in DOMAIN trace :
          trace[i].ev = "render" /\ trace[i].exit = "ok" /\ ~trace[i].artifact

\* C6: the source of each primary render attempt after the first is a newer
\* generation than the source of the attempt before it.
C6_RetryRendersRegeneratedSource ==
    \A k \in 1..(Len(PrimaryRenders) - 1) :
        PrimaryRenders[k + 1].src > PrimaryRenders[k].src

\* C7: at most 3 primary and 1 fallback render invocations (4 in all); the
\* fallback invocation is the last event of the render loop, and after it the
\* loop has been left.
C7_RenderBound ==
    /\ Len(PrimaryRenders) <= 3
    /\ Len(FallbackRenders) <= 1
    /\ Len(PrimaryRenders) + Len(FallbackRenders) <= 4
    /\ Len(FallbackRenders) = 1
       => /\ trace[Len(trace)].kind = "fallback"
          /\ pc \in {"return", "done"}

\* four invocations, the fallback one failing, and the request answered
C7_Witness ==
    /\ pc = "done"
    /\ Len(PrimaryRenders) = 3
    /\ Len(FallbackRenders) = 1
    /\ FallbackRenders[1].exit = "timeout"
    /\ response.video_path = NoPath

\* C8: when the attention IR generated on the transformer path has validation
\* errors, the request ends with a response holding domain, pattern and those
\* errors, and no video_path.
C8_InvalidAttentionIrIsReported ==
    (/\ entry = "generate"
     /\ Terminated
     /\ attn_ir.generated
     /\ attn_ir.errors # {})
    => /\ pc = "done"
       /\ response.keys = {"domain", "pattern", "errors"}
       /\ response.errors = attn_ir.errors
       /\ response.video_path = NoPath

\* C9: neither classifier step aborts the request: from the domain
\* classification the handler goes on to the pattern recommendation, and from
\* there to pattern resolution and dispatch.
C9_ClassifierFailureIsNotFatal ==
    [][/\ pc = "detect_domain" => pc' = "pattern"
       /\ pc = "pattern" => (pc' = "dispatch" /\ exc' = "none")]_vars

\* C10: the classifier adapter hands back only known values: the domain is one
\* of the allowed domains and the recommended pattern one of the pattern kinds.
C10_ClassifierReturnsKnownValues ==
    /\ domain # "" => domain \in AllowedDomains
    /\ llm_pattern # "" => llm_pattern \in PatternType


(* ----------------------- pattern resolution --------------------------- *)

\* the resolver as the specification words it
ReferencePattern(d, p) ==
    CASE d \in DomainKeys -> DOMAIN_TO_PATTERN[d]
      [] d \notin DomainKeys /\ Lower(p) = "grid" -> "grid"
      [] d \notin DomainKeys /\ Lower(p) = "sequence" -> "sequence"
      [] d \notin DomainKeys /\ Lower(p) = "graph" -> "graph"
      [] d \notin DomainKeys /\ Lower(p) = "seq_attention" -> "seq_attention"
      [] OTHER -> "flow"

StringPair == arg.domain # None /\ arg.llm_pattern # None

\* C11: for every pair of strings, resolve_pattern returns what the reference
\* returns: the override table's pattern when domain is one of its keys,
\* whatever the recommendation; otherwise the lowercased recommendation when it
\* is one of the five kinds; otherwise flow.
C11_ResolveEqualsReference ==
    (fn = "resolve_pattern" /\ StringPair)
    => \A i \in 1..Len(ret) :
          /\ ret[i].exc = "none"
          /\ ret[i].value = ReferencePattern(arg.domain, arg.llm_pattern)

\* an override entry wins over a recommendation that is a valid, different kind
C11_Witness ==
    /\ fn = "resolve_pattern"
    /\ arg.domain = "sorting" /\ arg.llm_pattern = "GRID"
    /\ Len(ret) = 1
    /\ ret[1] = Ok("sequence")

\* C12: for every pair of strings, the empty and the unknown ones included,
\* resolve_pattern returns one of the five pattern kinds and does not raise;
\* a second call on the same pair returns the same kind and nothing else in the
\* program has changed.
C12_ResolveIsTotal ==
    (fn = "resolve_pattern" /\ StringPair)
    => /\ \A i \in 1..Len(ret) :
             /\ ret[i].exc = "none"
             /\ ret[i].value \in PatternType
             /\ ret[i] = ret[1]
       /\ NotInvoked

\* an empty domain with an unknown recommendation, resolved twice
C12_Witness ==
    /\ fn = "resolve_pattern"
    /\ arg.domain = "" /\ arg.llm_pattern = "heatmap"
    /\ Len(ret) = MaxCalls
    /\ ret[MaxCalls] = Ok("flow")


(* ------------------------ document invariants ------------------------- *)

\* the validator returned an empty error list
Accepted == ret # <<>> /\ ret[1].exc = "none" /\ ret[1].errs = {}

\* the validator returned a non-empty error list
Rejected == ret # <<>> /\ ret[1].exc = "none" /\ ret[1].errs # {}

\* validators of the documents that hold components (nodes)
ComponentValidators == {"validate_ir"} \cup VariantValidators

\* the timed list of the validated document, the reference of one of its
\* entries and the position of a component, under the names each variant uses
DocTimed == IF fn = "validate_ir" THEN arg.events ELSE arg.actions

DocRef(e) == IF fn = "validate_ir" THEN e.from ELSE e.target

DocPosition(c) == IF fn = "validate_ir" THEN c.pos ELSE c.position

DocIds == {arg.components[i].id : i \in 1..Len(arg.components)}

\* invariant 1: every id is unique
UniqueIds ==
    \A i, j \in 1..Len(arg.components) :
        arg.components[i].id = arg.components[j].id => i = j

\* invariant 2: every reference names an existing id
ResolvableRefs ==
    \A i \in 1..Len(DocTimed) :
        DocRef(DocTimed[i]) # NoRef => DocRef(DocTimed[i]) \in DocIds

TimesPresent == \A i \in 1..Len(DocTimed) : DocTimed[i].t # NoT

\* some entry has a smaller t than its predecessor
Decreasing ==
    \E i \in 1..(Len(DocTimed) - 1) :
        /\ DocTimed[i].t # NoT /\ DocTimed[i + 1].t # NoT
        /\ DocTimed[i].t > DocTimed[i + 1].t

\* invariant 4: every position that is present holds three numbers
ThreeTuples ==
    \A i \in 1..Len(arg.components) :
        DocPosition(arg.components[i]).present
        => Len(DocPosition(arg.components[i]).coords) = 3

\* what every schema requires of the modelled fields
RequiredFields ==
    /\ TimesPresent
    /\ fn = "validate_graph_ir" => Len(arg.components) >= 1

\* C13: for each variant with components or nodes, a document that is valid
\* except that two components share an id is rejected with a non-empty error
\* list.
C13_DuplicateIdIsRejected ==
    (/\ fn \in ComponentValidators
     /\ ret # <<>>
     /\ ~UniqueIds
     /\ RequiredFields /\ ResolvableRefs /\ ~Decreasing /\ ThreeTuples)
    => Rejected

\* C14: for each variant whose actions or events carry references, a document
\* that is valid except that a reference names no component id is rejected
\* with a non-empty error list.
C14_DanglingReferenceIsRejected ==
    (/\ fn \in ComponentValidators \ {"validate_hash_table_ir"}
     /\ ret # <<>>
     /\ ~ResolvableRefs
     /\ RequiredFields /\ UniqueIds /\ ~Decreasing /\ ThreeTuples)
    => Rejected

\* C15: for each variant with a timed list, an accepted document has
\* non-decreasing timestamps, and a document in which some action has a
\* smaller t than its predecessor is rejected with a non-empty error list.
C15_TimestampsAreNonDecreasing ==
    (fn \in ComponentValidators /\ ret # <<>>)
    => /\ Accepted => ~Decreasing
       /\ (Decreasing /\ RequiredFields) => Rejected

\* C16: every document validate_attention_ir accepts has query_index within
\* the tokens, one row per token and rows of equal length when the weights are
\* 2-D, one weight per token when they are 1-D, and as many candidates as
\* probabilities when next_token is present.
C16_AcceptedAttentionIrHasShape ==
    (fn = "validate_attention_ir" /\ Accepted)
    => /\ 0 <= arg.query_index.value /\ arg.query_index.value < arg.tokens
       /\ Len(arg.weights.rows) = arg.tokens
       /\ arg.weights.dim = 2
          => \A i \in 1..Len(arg.weights.rows) :
                arg.weights.rows[i] = arg.weights.rows[1]
       /\ arg.next_token.present
          => arg.next_token.candidates = arg.next_token.probs

\* C17: in every accepted flow, graph or generic document each position that
\* is present holds exactly three numbers, and a position of another length
\* makes the validator return a non-empty error list.
C17_PositionsAreThreeTuples ==
    (fn \in {"validate_ir", "validate_flow_ir", "validate_graph_ir"} /\ ret # <<>>)
    => /\ Accepted => ThreeTuples
       /\ (~ThreeTuples /\ RequiredFields) => Rejected


(* --------------------------- the sanitizer ---------------------------- *)

\* C18: the sanitizing pass is idempotent: applied to its own output it gives
\* that output again.
C18_SanitizeIsIdempotent ==
    (fn = "call_llm_codegen_with_usage" /\ Len(ret) >= 2) => ret[2] = ret[1]

\* the reply defines exactly one class deriving from Scene
OneSceneClass ==
    Cardinality({i \in 1..Len(arg) : arg[i].body \in ClassBodies}) = 1

\* C19: when the reply defines exactly one scene class deriving from Scene,
\* the sanitized source names it AlgorithmScene and the post-check does not
\* report 'AlgorithmScene(Scene) not defined'.
C19_SceneClassIsRenamed ==
    (/\ fn = "call_llm_codegen_with_usage"
     /\ OneSceneClass
     /\ post_check # NotChecked)
    => /\ \A i \in 1..Len(ret[1]) :
             ret[1][i].body \in ClassBodies
             => ret[1][i].body = "class AlgorithmScene(Scene):"
       /\ <<"class_name", "AlgorithmScene(Scene) not defined">> \notin post_check

\* C20: no line of the sanitized source calls one of the undefined helpers,
\* and the post-check does not report unknown_helper on it.
C20_HelperCallsAreRemoved ==
    (fn = "call_llm_codegen_with_usage" /\ post_check # NotChecked)
    => /\ \A i \in 1..Len(ret[1]) : ret[1][i].body \notin HelperBodies
       /\ <<"unknown_helper", "uses undefined helper">> \notin post_check


\* C21: after sanitization the source holds no hex colour literal, wherever
\* it stood in the reply, and the post-check does not report one
C21_HexColorsAreRemoved ==
    /\ (fn = "call_llm_codegen_with_usage" /\ Len(ret) >= 1)
          => \A i \in 1..Len(ret[1]) : ret[1][i].body \notin HexBodies
    /\ (fn = "call_llm_codegen_with_usage" /\ post_check # NotChecked)
          => <<"color", "hex color literal detected">> \notin post_check


\* C22: every path a /generate request writes or hands back is its own: no
\* path is written by two requests or in two attempts, and no two requests
\* hand back the same path
C22_PathsAreUniquePerRequest ==
    /\ \A w1, w2 \in files :
          w1.path = w2.path => (w1.request = w2.request /\ w1.attempt = w2.attempt)
    /\ \A r1, r2 \in DOMAIN requests :
          (r1 # r2 /\ requests[r1].video_path # NoVideo)
             => requests[r1].video_path # requests[r2].video_path


\* a dedicated renderer was started: it handed back its path, or its engine
\* run raised
DedicatedRenderStarted ==
    /\ entry = "generate"
    /\ RepresentativePath
    /\ \/ response.sent /\ "video_path" \in response.keys
       \/ pc = "raised" /\ exc \in {"CalledProcessError", "FileNotFoundError"}

\* C23: on the cnn_param, sorting and transformer paths a dedicated render is
\* started only after a validator ran on the generated IR and found no error
C23_DedicatedRenderNeedsValidIr ==
    DedicatedRenderStarted
       => (validated # {} /\ \A v \in validated : v.errors = {})


\* what the service had for call k is a document validation accepts
OfferedValid(k) ==
    /\ ir_attempts[k].offered = "doc"
    /\ ir_attempts[k].raises = "none"
    /\ ir_attempts[k].errs = {}

\* ... is a document validation reports errors on
OfferedInvalid(k) ==
    /\ ir_attempts[k].offered = "doc"
    /\ ir_attempts[k].raises = "none"
    /\ ir_attempts[k].errs # {}

\* C24: when the document of attempt k is the first one that validates with
\* zero errors, the retry loop returns it and makes exactly k generation calls
C24_StopsAtFirstValidAttempt ==
    (entry = "generate_ir_with_validation" /\ Terminated)
       => \A k \in 1..Len(ir_attempts) :
             (OfferedValid(k) /\ \A j \in 1..(k - 1) : OfferedInvalid(j))
                => /\ ir_result.returned
                   /\ Len(ir_calls) = k

\* C25: after an attempt whose document has validation errors, another attempt
\* follows, and the feedback block of its prompt holds exactly the errors of
\* the failed attempt
C25_FeedbackHoldsErrorsOfFailedAttempt ==
    (entry = "generate_ir_with_validation" /\ Terminated)
       => \A k \in 1..Len(ir_attempts) :
             (k <= max_retries_zero_temp + 1 /\ \A j \in 1..k : OfferedInvalid(j))
                => /\ Len(ir_attempts) > k
                   /\ ir_attempts[k + 1].prompt = ir_attempts[k].errs


\* what the structural layer of the validator called finds in its argument,
\* as the messages the validator hands back for it
StructuralMessages ==
    CASE fn = "validate_ir" -> schema_errors(arg)
      [] fn = "validate_attention_ir" -> attention_schema_errors(arg)
      [] fn = "validate_grid_ir" -> {<<"Schema:">> \o m : m \in GRID_IR_SCHEMA(arg)}
      [] fn = "validate_sequence_ir" ->
            {<<"Schema:">> \o m : m \in SEQUENCE_IR_SCHEMA(arg)}
      [] fn = "validate_flow_ir" -> {<<"Schema:">> \o m : m \in FLOW_IR_SCHEMA(arg)}
      [] fn = "validate_hash_table_ir" ->
            {<<"Schema:">> \o m : m \in HASH_TABLE_IR_SCHEMA(arg)}
      [] fn = "validate_graph_ir" -> {<<"Schema:">> \o m : m \in GRAPH_IR_SCHEMA(arg)}
      [] OTHER -> {}

\* C26: when the structural layer reports an error, the invariant layer is not
\* evaluated: the validator returns, and only structural messages
C26_StructuralErrorsSkipInvariants ==
    (fn \in {"validate_ir", "validate_attention_ir"} \cup VariantValidators
        /\ ret # <<>> /\ StructuralMessages # {})
       => /\ ret[1].exc = "none"
          /\ ret[1].errs \subseteq StructuralMessages


\* C27: a validator returns an error list and never raises, and a document
\* with an entry that lacks the required t gets a non-empty list
C27_ValidationNeverRaises ==
    (fn \in ComponentValidators \cup {"validate_attention_ir"} /\ ret # <<>>)
       => /\ ret[1].exc = "none"
          /\ (fn \in ComponentValidators \ {"validate_hash_table_ir"} /\ ~TimesPresent)
                => ret[1].errs # {}


\* the tag of the variant the validator called belongs to
VariantTag ==
    CASE fn = "validate_grid_ir" -> "grid"
      [] fn = "validate_sequence_ir" -> "sequence"
      [] fn = "validate_flow_ir" -> "flow"
      [] fn = "validate_graph_ir" -> "graph"
      [] OTHER -> "seq_attention"

\* C28: a validator accepts a document only if its discriminator is the tag
\* of the validator's variant
C28_DiscriminatorIsChecked ==
    /\ (fn \in {"validate_grid_ir", "validate_sequence_ir", "validate_flow_ir",
                "validate_graph_ir"} /\ Accepted)
          => arg.pattern = VariantTag
    /\ (fn = "validate_attention_ir" /\ Accepted)
          => arg.pattern_type = VariantTag


\* the stage of the generic path a position of the handler belongs to
StageOf(p) ==
    CASE p = "pseudocode" -> 1
      [] p = "detect_domain" -> 2
      [] p = "pattern" -> 3
      [] p = "dispatch" -> 4
      [] p = "codegen" -> 5
      [] p \in {"render", "fallback"} -> 6
      [] OTHER -> 7

\* the pseudocode document is about to be handed to animation-IR synthesis
HandedToAnimIr == entry = "generate" /\ pc = "dispatch" /\ ~RepresentativePath

\* the classifier's result, or "generic" when classification raised
ClassifierResult == IF classified.exc = "none" THEN classified.value ELSE "generic"

\* C29: on the generic path the stages run strictly in order (pseudocode,
\* classification and attachment, pattern resolution, animation-IR synthesis,
\* code generation, render), and the document handed to animation-IR synthesis
\* has metadata.domain equal to the classifier's result, or "generic" when
\* classification raised
C29_StagesInOrderWithDomainAttached ==
    /\ [](HandedToAnimIr
            => /\ pseudo_ir.metadata_is_dict
               /\ pseudo_ir.metadata_domain = ClassifierResult)
    /\ [][entry = "generate"
            => /\ pc' \notin {"raised", "done"}
                  => (StageOf(pc') = StageOf(pc) \/ StageOf(pc') = StageOf(pc) + 1)
               /\ (pc' = "done" /\ "anim_ir" \in response'.keys) => pc = "return"]_vars

\* classification raised, "generic" was attached, and the animation IR was
\* synthesised from that document
C29_Witness ==
    /\ entry = "generate" /\ pc = "codegen"
    /\ classified.exc = "JSONDecodeError"
    /\ pseudo_ir.metadata_domain = "generic"


PostChecks == SelectSeq(trace, LAMBDA e : e.ev = "post_check")

\* C30: the code-generation loop makes at most 3 generation calls, goes on
\* only after a candidate with issues, and leaves with the first candidate
\* without issues or else with the third; the first render gets that
\* generated source, and a source regenerated in the render loop is rendered
\* next without a post-check
C30_CodegenLoopIsBoundedAndKeepsLastCandidate ==
    /\ Len(PostChecks) <= 3
    /\ \A k \in 1..Len(PostChecks) :
          /\ PostChecks[k].src = k
          /\ k < Len(PostChecks) => PostChecks[k].kind = "failed"
    /\ (entry = "generate" /\ pc \in {"render", "fallback", "return"})
          => /\ manim_code # NoCode
             /\ manim_code.gen >= 1
             /\ PostChecks # <<>>
             /\ (PostChecks[Len(PostChecks)].kind = "passed" \/ Len(PostChecks) = 3)
    /\ PrimaryRenders # <<>> => PrimaryRenders[1].src = Len(PostChecks)
    /\ \A i \in DOMAIN trace :
          trace[i].ev = "regen"
             => /\ \A k \in 1..Len(PostChecks) : PostChecks[k].src # trace[i].src
                /\ i < Len(trace)
                      => /\ trace[i + 1].ev = "render"
                         /\ trace[i + 1].kind = "primary"
                         /\ trace[i + 1].src = trace[i].src

\* three candidates with issues, the third rendered, and a regenerated source
\* rendered after it
C30_Witness ==
    /\ Len(PostChecks) = 3
    /\ PostChecks[3].kind = "failed"
    /\ Len(PrimaryRenders) >= 2
    /\ PrimaryRenders[1].src = 3
    /\ PrimaryRenders[2].src = 4

====
